---- MODULE Spec2Model ----
(***************************************************************************)
(* timezone-intel: the request handlers of src/index.ts as a state machine. *)
(*                                                                         *)
(* One invocation of one entrypoint is followed from the call of its       *)
(* handler to its completion (an output object returned, or an error       *)
(* thrown to the framework).  The upstream providers and the wall clock    *)
(* are the environment: every in-flight upstream call settles at some      *)
(* later step with any response the transport can deliver, and the clock   *)
(* advances between any two steps.  Handlers share no state (index.ts has  *)
(* no module-level mutable variable besides the framework singletons), so  *)
(* one invocation is the whole of what a handler can observe.              *)
(***************************************************************************)
EXTENDS Integers, Sequences, FiniteSets, TLC

VARIABLES
    clock,      \* wall clock, in ms since 2026-12-31T00:00:00.000Z
    handler,    \* key of the entrypoint being served, "none" before the call
    input,      \* ctx.input of the invocation
    pc,         \* position of the handler: idle / awaiting / filter / map / return / done
    fetches,    \* the upstream calls issued by the invocation, in issue order
    awaited,    \* the promise the handler awaits (Promise.all's, or the single call's)
    outOfOrder, \* history: some upstream call settled before one issued earlier
    locals,     \* the handler's local variables (year, today, upcomingHolidays)
    clockReads, \* history: the clock instants read after the await of full-report
    result      \* how the invocation ended: none / output / thrown

vars == <<clock, handler, input, pc, fetches, awaited, outOfOrder, locals, clockReads, result>>

(***************************************************************************)
(* Bounds of the model.                                                    *)
(***************************************************************************)
\* largest `timezones` array tried (the schema allows up to SchemaMaxZones)
MaxZones == 3
\* longest upstream holiday list tried under SpecReport
MaxHolidays == 6
\* longest upstream holiday list tried under Spec
ShortHolidays == 1
\* the clock takes the instants 0, 12h, ... MaxClock * 12h after 2026-12-31T00:00Z
MaxClock == 2

(***************************************************************************)
(* Program constants.                                                      *)
(***************************************************************************)
SchemaMinZones == 2
SchemaMaxZones == 10
CountryCodeLength == 2
SliceLimit == 5
SampleCountries == 10
MsPerDay == 1000 * 60 * 60 * 24

\* the step of the clock
HalfDayMs == MsPerDay \div 2

Min(a, b) == IF a <= b THEN a ELSE b

SeqsUpTo(S, lo, hi) == UNION {[1..n -> S] : n \in lo..hi}

(***************************************************************************)
(* Strings.  A string whose characters matter (a country code, an ISO      *)
(* date) is the sequence of its characters.                                *)
(***************************************************************************)
\* String.prototype.toUpperCase, character by character
UpperChar(c) ==
    CASE c = "d" -> "D"
      [] c = "e" -> "E"
      [] OTHER   -> c

\* the upper-casing forgotten
toUpperCase_identity(s) == s

toUpperCase(s) == [i \in 1..Len(s) |-> UpperChar(s[i])]

\* UTF-16 code units of the characters of an ISO date, for the relational
\* comparison of two strings (h.date >= today)
CharCode(c) ==
    CASE c = "-" -> 45
      [] c = "0" -> 48 [] c = "1" -> 49 [] c = "2" -> 50 [] c = "3" -> 51
      [] c = "4" -> 52 [] c = "5" -> 53 [] c = "6" -> 54 [] c = "7" -> 55
      [] c = "8" -> 56 [] c = "9" -> 57

RECURSIVE StrLess(_, _)
\* a < b on strings: the first differing code unit decides, a proper prefix is smaller
StrLess(a, b) ==
    IF b = <<>> THEN FALSE
    ELSE IF a = <<>> THEN TRUE
    ELSE IF CharCode(Head(a)) # CharCode(Head(b))
         THEN CharCode(Head(a)) < CharCode(Head(b))
         ELSE StrLess(Tail(a), Tail(b))

StrGE(a, b) == ~StrLess(a, b)

(***************************************************************************)
(* Dates.  Date.prototype.toISOString and new Date("YYYY-MM-DD") both work *)
(* in UTC on the proleptic Gregorian calendar.  Instants are counted from  *)
(* 2026-12-31 instead of 1970-01-01 so that they fit in 32 bits; every    *)
(* use in index.ts is a difference of two instants or a calendar date, and *)
(* neither depends on the origin.                                          *)
(***************************************************************************)
DaysFromCivil(y, m, d) ==
    LET yy  == IF m <= 2 THEN y - 1 ELSE y
        era == yy \div 400
        yoe == yy - era * 400
        mp  == IF m > 2 THEN m - 3 ELSE m + 9
        doy == (153 * mp + 2) \div 5 + d - 1
        doe == yoe * 365 + yoe \div 4 - yoe \div 100 + doy
    IN  era * 146097 + doe - 719468

CivilFromDays(z) ==
    LET zz  == z + 719468
        era == zz \div 146097
        doe == zz - era * 146097
        yoe == (doe - doe \div 1460 + doe \div 36524 - doe \div 146096) \div 365
        doy == doe - (365 * yoe + yoe \div 4 - yoe \div 100)
        mp  == (5 * doy + 2) \div 153
        d   == doy - (153 * mp + 2) \div 5 + 1
        m   == IF mp < 10 THEN mp + 3 ELSE mp - 9
        y   == yoe + era * 400 + (IF m <= 2 THEN 1 ELSE 0)
    IN  [year |-> y, month |-> m, day |-> d]

\* the model's origin of time: 2026-12-31T00:00:00.000Z
EpochDays == DaysFromCivil(2026, 12, 31)

Digit(n) == CASE n = 0 -> "0" [] n = 1 -> "1" [] n = 2 -> "2" [] n = 3 -> "3"
              [] n = 4 -> "4" [] n = 5 -> "5" [] n = 6 -> "6" [] n = 7 -> "7"
              [] n = 8 -> "8" [] n = 9 -> "9"

DigitValue(c) == CharCode(c) - 48

Pad2(n) == <<Digit(n \div 10), Digit(n % 10)>>

Pad4(n) == <<Digit(n \div 1000), Digit((n \div 100) % 10), Digit((n \div 10) % 10), Digit(n % 10)>>

\* new Date(t).toISOString(): <<"YYYY-MM-DD", ms of the UTC day>>, the two parts
\* that split('T') separates
toISOString(t) ==
    LET c == CivilFromDays(EpochDays + t \div MsPerDay)
    IN  <<Pad4(c.year) \o <<"-">> \o Pad2(c.month) \o <<"-">> \o Pad2(c.day), t % MsPerDay>>

\* new Date(t).getFullYear(), the server running in UTC
getFullYear(t) == CivilFromDays(EpochDays + t \div MsPerDay).year

\* new Date("YYYY-MM-DD").getTime(): UTC midnight of the date
getTime(s) ==
    LET y == DigitValue(s[1]) * 1000 + DigitValue(s[2]) * 100 + DigitValue(s[3]) * 10 + DigitValue(s[4])
        m == DigitValue(s[6]) * 10 + DigitValue(s[7])
        d == DigitValue(s[9]) * 10 + DigitValue(s[10])
    IN  (DaysFromCivil(y, m, d) - EpochDays) * MsPerDay

\* Math.ceil(a / b) for b > 0
CeilDiv(a, b) == -((-a) \div b)

(***************************************************************************)
(* JavaScript values.  A JSON value that the code may find to be null is   *)
(* tagged; an object is a record whose domain is its defined properties (a *)
(* property holding undefined is absent, as in the serialised output).     *)
(***************************************************************************)
JNull == [t |-> "null"]
JObj(r) == [t |-> "object", v |-> r]
JArr(s) == [t |-> "array", v |-> s]

\* o.k for an object o: <<value>>, or <<>> for undefined
Prop(o, k) == IF k \in DOMAIN o THEN <<o[k]>> ELSE <<>>

\* x?.k for x itself a property read (<<>> when undefined, JNull when null)
OptProp(x, k) ==
    IF Len(x) = 0 THEN <<>>
    ELSE IF x[1].t = "null" THEN <<>>
    ELSE Prop(x[1].v, k)

\* j.k for a non-null JSON value j: arrays have none of the properties read here
ObjProp(j, k) == IF j.t = "object" THEN Prop(j.v, k) ELSE <<>>

\* an object literal { k: m[k], ... }, the undefined properties left out
MkObject(m) == [k \in {j \in DOMAIN m : Len(m[j]) = 1} |-> m[k][1]]

Output(o) == [kind |-> "output", output |-> o]
Thrown(e) == [kind |-> "thrown", error |-> e]
NoResult == [kind |-> "none"]

\* reading a property of null
NullTypeError == [name |-> "TypeError", message |-> <<"Cannot read properties of null">>]

\* calling a method the value does not have (holidays.filter on a non-array)
NotAFunction == [name |-> "TypeError", message |-> <<"is not a function">>]

Pending == [st |-> "pending", val |-> JNull]
Fulfilled(v) == [st |-> "fulfilled", val |-> v]
Rejected(e) == [st |-> "rejected", val |-> e]

(***************************************************************************)
(* The upstream providers.  A call that has not settled has the response   *)
(* NoResponse; it settles with a network failure or an HTTP response, the  *)
(* body of a 2xx response being unparsable, JSON null or the endpoint's    *)
(* document.                                                               *)
(***************************************************************************)
NoResponse == [kind |-> "pending"]
BadBody == [parse |-> "error"]
GoodBody(d) == [parse |-> "ok", data |-> d]
HttpResponse(s, b) == [kind |-> "http", status |-> s, body |-> b]

FailureStatuses == {404, 500}

Failures ==
    {[kind |-> "network"]} \cup {HttpResponse(s, BadBody) : s \in FailureStatuses}
        \cup {HttpResponse(200, BadBody)}

\* the distinct documents an upstream time / conversion response can carry
Payloads == {1, 2}

TimeData(p) ==
    [timeZone |-> <<"timeZone", p>>, dateTime |-> <<"dateTime", p>>, date |-> <<"date", p>>,
     time |-> <<"time", p>>, dayOfWeek |-> <<"dayOfWeek", p>>, dstActive |-> (p % 2 = 0),
     year |-> 2026, month |-> 12, day |-> 31, hour |-> p, minute |-> p, seconds |-> p]

TimeResponses ==
    Failures \cup {HttpResponse(200, GoodBody(d)) : d \in {JNull} \cup {JObj(TimeData(p)) : p \in Payloads}}

ConversionData(p) ==
    [fromTimezone |-> <<"fromTimezone", p>>, fromDateTime |-> <<"fromDateTime", p>>,
     toTimeZone |-> <<"toTimeZone", p>>]

ConversionResult(p) ==
    [dateTime |-> <<"dateTime", p>>, date |-> <<"date", p>>, time |-> <<"time", p>>,
     dayOfWeek |-> <<"dayOfWeek", p>>, dstActive |-> (p % 2 = 0)]

WithConversionResult(r, c) == [k \in DOMAIN r \cup {"conversionResult"} |->
                                 IF k = "conversionResult" THEN c ELSE r[k]]

ConvertDocuments ==
    UNION {{ConversionData(p),
            WithConversionResult(ConversionData(p), JNull),
            WithConversionResult(ConversionData(p), JObj(ConversionResult(p)))} : p \in Payloads}

ConvertResponses ==
    Failures \cup {HttpResponse(200, GoodBody(d)) : d \in {JNull} \cup {JObj(r) : r \in ConvertDocuments}}

\* the dates an upstream holiday can carry: the first two days of the model's time
HolidayDates == {toISOString(0)[1], toISOString(MsPerDay)[1]}

\* the i-th holiday of an upstream list (its name tells the entries apart)
HolidayData(date, i) ==
    [date |-> date, name |-> <<"name", i>>, localName |-> <<"localName", i>>,
     global |-> TRUE, types |-> <<"Public">>]

HolidayLists(n) ==
    {[i \in 1..Len(ds) |-> HolidayData(ds[i], i)] : ds \in SeqsUpTo(HolidayDates, 0, n)}

HolidayResponses(n) ==
    Failures \cup {HttpResponse(200, GoodBody(d)) : d \in {JNull} \cup {JArr(l) : l \in HolidayLists(n)}}

ListLengths == {2, SampleCountries + 1}

ListResponses ==
    Failures \cup {HttpResponse(200, GoodBody(d)) :
                      d \in {JNull} \cup {JArr([i \in 1..n |-> <<"item", i>>]) : n \in ListLengths}}

\* what the endpoint of a call can answer, holiday lists being at most n long
ResponsesUpTo(url, n) ==
    CASE url[1] = "time/current/zone"            -> TimeResponses
      [] url[1] = "conversion/converttimezone"   -> ConvertResponses
      [] url[1] = "publicholidays"               -> HolidayResponses(n)
      [] OTHER                                   -> ListResponses


ResponseOk(r) == r.status >= 200 /\ r.status <= 299

(***************************************************************************)
(* fetchJSON and the promises built on it.                                 *)
(***************************************************************************)
\* fetchJSON without its `if (!response.ok) throw`
fetchJSON_noOkCheck(resp) ==
    IF resp.kind = "pending" THEN [st |-> "pending", val |-> [t |-> "null"]]
    ELSE IF resp.kind = "network"
         THEN [st |-> "rejected", val |-> [name |-> "TypeError", message |-> <<"fetch failed">>]]
    ELSE IF resp.body.parse = "error"
         THEN [st |-> "rejected", val |-> [name |-> "SyntaxError", message |-> <<"Unexpected token">>]]
    ELSE [st |-> "fulfilled", val |-> resp.body.data]

\* the promise fetchJSON(url) returns, given what the upstream has answered so far
fetchJSON(resp) ==
    IF resp.kind = "pending" THEN Pending
    ELSE IF resp.kind = "network"
         THEN Rejected([name |-> "TypeError", message |-> <<"fetch failed">>])
    ELSE IF ~ResponseOk(resp)
         THEN Rejected([name |-> "Error", message |-> <<"API error: ", resp.status>>])
    ELSE IF resp.body.parse = "error"
         THEN Rejected([name |-> "SyntaxError", message |-> <<"Unexpected token">>])
    ELSE Fulfilled(resp.body.data)

\* convert's own fetch / ok check / response.json()
convertFetch(resp) ==
    IF resp.kind = "pending" THEN Pending
    ELSE IF resp.kind = "network"
         THEN Rejected([name |-> "TypeError", message |-> <<"fetch failed">>])
    ELSE IF ~ResponseOk(resp)
         THEN Rejected([name |-> "Error", message |-> <<"API error: ", resp.status>>])
    ELSE IF resp.body.parse = "error"
         THEN Rejected([name |-> "SyntaxError", message |-> <<"Unexpected token">>])
    ELSE Fulfilled(resp.body.data)

ErrorMarker(tz) == [timezone |-> tz, error |-> "Failed to fetch"]

\* the success object of one multi-zone slot
zoneSuccess(tz, d) ==
    MkObject([k \in {"timezone", "dateTime", "date", "time", "dayOfWeek", "dstActive"} |->
                IF k = "timezone" THEN <<tz>> ELSE Prop(d, k)])

\* the callback without its try / catch
zoneTask_noCatch(tz, p) ==
    IF p.st = "pending" THEN Pending
    ELSE IF p.st = "rejected" THEN Rejected(p.val)
    ELSE IF p.val.t = "null" THEN Rejected(NullTypeError)
    ELSE Fulfilled(zoneSuccess(tz, p.val.v))

\* the async callback of multi-zone's map, given the promise of its fetchJSON:
\* whatever is thrown inside the try (a rejected fetchJSON, a property read of a
\* null document) is caught and becomes the error marker
zoneTask(tz, p) ==
    IF p.st = "pending" THEN Pending
    ELSE IF p.st = "rejected" THEN Fulfilled(ErrorMarker(tz))
    ELSE IF p.val.t = "null" THEN Fulfilled(ErrorMarker(tz))
    ELSE Fulfilled(zoneSuccess(tz, p.val.v))

\* Promise.all over n promises, before any has settled: the values array and the
\* count of promises still to fulfil
PromiseAllStart(n) == [st |-> "pending", val |-> [i \in 1..n |-> JNull], remaining |-> n]

\* a gather that pushes each value as it arrives
PromiseAllSettle_arrivalOrder(a, i, p) ==
    IF a.st # "pending" THEN a
    ELSE IF p.st = "rejected" THEN [st |-> "rejected", val |-> p.val, remaining |-> a.remaining]
    ELSE [st |-> IF a.remaining = 1 THEN "fulfilled" ELSE "pending",
          val |-> [a.val EXCEPT ![Len(a.val) - a.remaining + 1] = p.val],
          remaining |-> a.remaining - 1]

\* a gather that is done at the first fulfilment (Promise.any / race for all)
PromiseAllSettle_firstFulfilled(a, i, p) ==
    IF a.st # "pending" THEN a
    ELSE IF p.st = "rejected" THEN [st |-> "rejected", val |-> p.val, remaining |-> a.remaining]
    ELSE [st |-> "fulfilled",
          val |-> [a.val EXCEPT ![i] = p.val],
          remaining |-> a.remaining - 1]

\* Promise.all's reaction to its i-th promise settling as p: the first rejection
\* rejects it; a fulfilment stores the value at index i and fulfils it when it was
\* the last; once settled nothing changes it
PromiseAllSettle(a, i, p) ==
    IF a.st # "pending" THEN a
    ELSE IF p.st = "rejected" THEN [st |-> "rejected", val |-> p.val, remaining |-> a.remaining]
    ELSE [st |-> IF a.remaining = 1 THEN "fulfilled" ELSE "pending",
          val |-> [a.val EXCEPT ![i] = p.val],
          remaining |-> a.remaining - 1]

\* await of a single promise
AwaitStart == [st |-> "pending", val |-> JNull, remaining |-> 1]

AwaitSettle(a, i, p) == [st |-> p.st, val |-> p.val, remaining |-> 0]

(***************************************************************************)
(* The handlers: the URL(s) each one requests and what it makes of the     *)
(* awaited documents.                                                      *)
(***************************************************************************)
Handlers == {"overview", "current-time", "convert", "holidays", "multi-zone", "full-report"}
BatchHandlers == {"overview", "multi-zone", "full-report"}

Zones == {"America/New_York", "Invalid/Zone"}

encodeURIComponent(tz) ==
    CASE tz = "America/New_York" -> "America%2FNew_York"
      [] tz = "Invalid/Zone"     -> "Invalid%2FZone"

timeUrl(tz) == <<"time/current/zone", encodeURIComponent(tz)>>

holidaysUrl(year, countryCode) == <<"publicholidays", year, toUpperCase(countryCode)>>

convertUrl(inp) ==
    <<"conversion/converttimezone",
      [fromTimeZone |-> inp.fromTimezone, dateTime |-> inp.dateTime,
       toTimeZone |-> inp.toTimezone, dstAmbiguity |-> ""]>>

MajorZones ==
    <<"America/New_York", "America/Los_Angeles", "America/Chicago", "Europe/London",
      "Europe/Paris", "Europe/Berlin", "Asia/Tokyo", "Asia/Shanghai", "Asia/Singapore",
      "Australia/Sydney", "Pacific/Auckland">>

overviewReturn(timezones, countries, now) ==
    IF timezones.t = "null" \/ countries.t = "null" THEN Thrown(NullTypeError)
    ELSE Output([totalTimezones |-> Len(timezones.v),
                 sampleTimezones |-> MajorZones,
                 totalCountries |-> Len(countries.v),
                 sampleCountries |-> SubSeq(countries.v, 1, Min(SampleCountries, Len(countries.v))),
                 fetchedAt |-> toISOString(now)])

currentTimeReturn(data) ==
    IF data.t = "null" THEN Thrown(NullTypeError)
    ELSE Output(MkObject(
            [k \in {"timezone", "dateTime", "date", "time", "dayOfWeek", "dstActive",
                    "year", "month", "day", "hour", "minute", "seconds"} |->
                IF k = "timezone" THEN Prop(data.v, "timeZone") ELSE Prop(data.v, k)]))

\* the output of convert, cr being what data.conversionResult read
convertOutput(d, cr) ==
    Output([original |-> MkObject([k \in {"timezone", "dateTime"} |->
                            IF k = "timezone" THEN Prop(d, "fromTimezone")
                            ELSE Prop(d, "fromDateTime")]),
            converted |-> MkObject([k \in {"timezone", "dateTime", "date", "time",
                                          "dayOfWeek", "dstActive"} |->
                            IF k = "timezone" THEN Prop(d, "toTimeZone")
                            ELSE OptProp(cr, k)])])

\* data.conversionResult.dateTime read without the optional chaining
convertReturn_noOptionalChaining(data) ==
    IF data.t = "null" THEN Thrown(NullTypeError)
    ELSE IF "conversionResult" \notin DOMAIN data.v THEN Thrown(NullTypeError)
    ELSE IF data.v.conversionResult.t = "null" THEN Thrown(NullTypeError)
    ELSE convertOutput(data.v, Prop(data.v, "conversionResult"))

convertReturn(data) ==
    IF data.t = "null" THEN Thrown(NullTypeError)
    ELSE convertOutput(data.v, Prop(data.v, "conversionResult"))

\* ctx.input.year || new Date().getFullYear()
holidaysYear(inp, now) ==
    IF "year" \in DOMAIN inp /\ inp.year # 0 THEN inp.year ELSE getFullYear(now)

holidaysReturn(inp, year, data) ==
    IF data.t = "null" THEN Thrown(NullTypeError)
    ELSE LET holidays == [i \in 1..Len(data.v) |->
                            MkObject([k \in {"date", "name", "localName", "isGlobal", "types"} |->
                                IF k = "isGlobal" THEN Prop(data.v[i], "global")
                                ELSE Prop(data.v[i], k)])]
         IN  Output([countryCode |-> toUpperCase(inp.countryCode),
                     year |-> year,
                     totalHolidays |-> Len(holidays),
                     holidays |-> holidays])

multiZoneReturn(results, now) ==
    Output([count |-> Len(results), times |-> results, fetchedAt |-> toISOString(now)])

\* the filter forgotten: holidays.slice(0, 5)
upcomingOf_noFilter(holidays, today) == SubSeq(holidays, 1, Min(SliceLimit, Len(holidays)))

RECURSIVE SortedByDate(_)
\* a stable ascending sort by date
SortedByDate(hs) ==
    IF hs = <<>> THEN <<>>
    ELSE LET i == CHOOSE k \in 1..Len(hs) :
                    /\ \A j \in 1..Len(hs) : StrGE(hs[j].date, hs[k].date)
                    /\ \A j \in 1..(k - 1) : StrLess(hs[k].date, hs[j].date)
         IN  <<hs[i]>> \o SortedByDate(SubSeq(hs, 1, i - 1) \o SubSeq(hs, i + 1, Len(hs)))

\* the remaining holidays sorted before the slice: the five earliest
upcomingOf_sorted(holidays, today) ==
    LET keep(h) == StrGE(h.date, today)
        kept == SortedByDate(SelectSeq(holidays, keep))
    IN  SubSeq(kept, 1, Min(SliceLimit, Len(kept)))

\* holidays.filter(h => h.date >= today).slice(0, 5)
upcomingOf(holidays, today) ==
    LET keep(h) == StrGE(h.date, today)
        kept == SelectSeq(holidays, keep)
    IN  SubSeq(kept, 1, Min(SliceLimit, Len(kept)))

\* Math.floor in place of Math.ceil
daysUntil_floor(date, now) == (getTime(date) - now) \div MsPerDay

\* Math.ceil((new Date(h.date).getTime() - Date.now()) / (1000 * 60 * 60 * 24))
daysUntil(date, now) == CeilDiv(getTime(date) - now, MsPerDay)

upcomingEntry(h, now) == [date |-> h.date, name |-> h.name, daysUntil |-> daysUntil(h.date, now)]

fullReportReturn(inp, timeData, holidays, upcomingHolidays, now) ==
    IF timeData.t = "null" THEN Thrown(NullTypeError)
    ELSE Output([timezone |-> MkObject([k \in {"name", "currentTime", "date", "time",
                                              "dayOfWeek", "dstActive"} |->
                                CASE k = "name" -> <<inp.timezone>>
                                  [] k = "currentTime" -> ObjProp(timeData, "dateTime")
                                  [] OTHER -> ObjProp(timeData, k)]),
                 country |-> [code |-> toUpperCase(inp.countryCode),
                              totalHolidays |-> Len(holidays.v),
                              upcomingHolidays |-> upcomingHolidays],
                 generatedAt |-> toISOString(now)])

(***************************************************************************)
(* The state machine.                                                      *)
(***************************************************************************)
Call(url) == [url |-> url, resp |-> NoResponse]

NoLocals == [year |-> 0, today |-> <<>>, kept |-> <<>>, upcoming |-> <<>>]

CountryCodes == [1..CountryCodeLength -> {"d", "E"}]

\* the years a caller supplies: z.number() accepts every finite number
SuppliedYears == {0, 2026, 2027}

ZoneLists == SeqsUpTo(Zones, SchemaMinZones, Min(SchemaMaxZones, MaxZones))

Init ==
    /\ clock = 0
    /\ handler = "none"
    /\ input = <<>>
    /\ pc = "idle"
    /\ fetches = <<>>
    /\ awaited = AwaitStart
    /\ outOfOrder = FALSE
    /\ locals = NoLocals
    /\ clockReads = <<>>
    /\ result = NoResult

\* the handler is called and runs to its first await: every upstream call of the
\* invocation is issued here, before the await
Start(h, inp, year, calls) ==
    /\ handler' = h
    /\ input' = inp
    /\ locals' = [NoLocals EXCEPT !.year = year]
    /\ fetches' = calls
    /\ awaited' = IF h \in BatchHandlers THEN PromiseAllStart(Len(calls)) ELSE AwaitStart
    /\ pc' = "awaiting"
    /\ UNCHANGED <<clock, outOfOrder, clockReads, result>>

InvokeOverview ==
    /\ pc = "idle"
    /\ Start("overview", <<>>, 0,
             <<Call(<<"timezone/availabletimezones">>), Call(<<"AvailableCountries">>)>>)

InvokeCurrentTime ==
    /\ pc = "idle"
    /\ \E tz \in Zones :
        Start("current-time", [timezone |-> tz], 0, <<Call(timeUrl(tz))>>)

InvokeConvert ==
    /\ pc = "idle"
    /\ \E from \in Zones, to \in Zones :
        LET inp == [fromTimezone |-> from, toTimezone |-> to, dateTime |-> "2026-02-01 10:00:00"]
        IN  Start("convert", inp, 0, <<Call(convertUrl(inp))>>)

InvokeHolidays ==
    /\ pc = "idle"
    /\ \E inp \in {[countryCode |-> c] : c \in CountryCodes}
               \cup {[countryCode |-> c, year |-> y] : c \in CountryCodes, y \in SuppliedYears} :
        LET year == holidaysYear(inp, clock)
        IN  Start("holidays", inp, year, <<Call(holidaysUrl(year, inp.countryCode))>>)

InvokeMultiZone ==
    /\ pc = "idle"
    /\ \E tzs \in ZoneLists :
        Start("multi-zone", [timezones |-> tzs], 0, [i \in 1..Len(tzs) |-> Call(timeUrl(tzs[i]))])

FullReportCall(tz, c) ==
    LET year == getFullYear(clock)
    IN  Start("full-report", [timezone |-> tz, countryCode |-> c], year,
              <<Call(timeUrl(tz)), Call(holidaysUrl(year, c))>>)

InvokeFullReport ==
    /\ pc = "idle"
    /\ \E tz \in Zones, c \in CountryCodes : FullReportCall(tz, c)

\* the promise upstream call i of the handler is wrapped in, given its response
PromiseOf(h, inp, i, resp) ==
    CASE h = "multi-zone" -> zoneTask(inp.timezones[i], fetchJSON(resp))
      [] h = "convert"    -> convertFetch(resp)
      [] OTHER            -> fetchJSON(resp)

\* the handler from the end of its await to its return or throw (full-report goes
\* on in FilterStep)
Resume(h, inp, loc, a, now) ==
    IF a.st = "rejected" THEN Thrown(a.val)
    ELSE CASE h = "overview"     -> overviewReturn(a.val[1], a.val[2], now)
           [] h = "current-time" -> currentTimeReturn(a.val)
           [] h = "convert"      -> convertReturn(a.val)
           [] h = "holidays"     -> holidaysReturn(inp, loc.year, a.val)
           [] h = "multi-zone"   -> multiZoneReturn(a.val, now)
           [] OTHER              -> NoResult

\* upstream call i settles with one of the responses its endpoint can give (holiday
\* lists of at most n entries); if that settles the awaited promise, the handler
\* resumes in the same turn of the event loop
SettleWith(n) ==
    \E i \in 1..Len(fetches) :
        /\ fetches[i].resp.kind = "pending"
        /\ \E resp \in ResponsesUpTo(fetches[i].url, n) :
            LET p == PromiseOf(handler, input, i, resp)
                a == IF handler \in BatchHandlers THEN PromiseAllSettle(awaited, i, p)
                     ELSE AwaitSettle(awaited, i, p)
            IN  /\ fetches' = [fetches EXCEPT ![i].resp = resp]
                /\ awaited' = a
                /\ IF pc = "awaiting" /\ a.st # "pending"
                   THEN IF handler = "full-report" /\ a.st = "fulfilled"
                        THEN pc' = "filter" /\ UNCHANGED result
                        ELSE pc' = "done" /\ result' = Resume(handler, input, locals, a, clock)
                   ELSE UNCHANGED <<pc, result>>
        /\ outOfOrder' = (outOfOrder \/ \E j \in 1..Len(fetches) :
                                            j > i /\ fetches[j].resp.kind # "pending")
        /\ UNCHANGED <<clock, handler, input, locals, clockReads>>

Settle ==
    /\ pc # "idle"
    /\ SettleWith(ShortHolidays)

\* full-report, lines 234-237: today is read from the clock, the holidays are
\* filtered and sliced
FilterStep ==
    /\ pc = "filter"
    /\ LET holidays == awaited.val[2]
           today == toISOString(clock)[1]
       IN  IF holidays.t # "array"
           THEN /\ pc' = "done"
                /\ result' = Thrown(IF holidays.t = "null" THEN NullTypeError ELSE NotAFunction)
                /\ UNCHANGED locals
           ELSE /\ pc' = "map"
                /\ locals' = [locals EXCEPT !.today = today, !.kept = upcomingOf(holidays.v, today)]
                /\ UNCHANGED result
    /\ clockReads' = Append(clockReads, clock)
    /\ UNCHANGED <<clock, handler, input, fetches, awaited, outOfOrder>>

\* full-report, lines 238-242: the next entry is mapped, Date.now() read for it
MapStep ==
    /\ pc = "map"
    /\ Len(locals.upcoming) < Len(locals.kept)
    /\ locals' = [locals EXCEPT !.upcoming =
                    Append(@, upcomingEntry(locals.kept[Len(locals.upcoming) + 1], clock))]
    /\ clockReads' = Append(clockReads, clock)
    /\ UNCHANGED <<clock, handler, input, pc, fetches, awaited, outOfOrder, result>>

\* full-report, lines 244-261: the output object is built and returned
ReturnStep ==
    /\ pc = "map"
    /\ Len(locals.upcoming) = Len(locals.kept)
    /\ result' = fullReportReturn(input, awaited.val[1], awaited.val[2], locals.upcoming, clock)
    /\ pc' = "done"
    /\ UNCHANGED <<clock, handler, input, fetches, awaited, outOfOrder, locals, clockReads>>

\* time passes while the invocation is being served (the clock is of no
\* consequence to it once it has ended)
Tick ==
    /\ pc # "done"
    /\ clock < MaxClock * HalfDayMs
    /\ clock' = clock + HalfDayMs
    /\ UNCHANGED <<handler, input, pc, fetches, awaited, outOfOrder, locals, clockReads, result>>

Next ==
    \/ InvokeOverview
    \/ InvokeCurrentTime
    \/ InvokeConvert
    \/ InvokeHolidays
    \/ InvokeMultiZone
    \/ InvokeFullReport
    \/ Settle
    \/ FilterStep
    \/ MapStep
    \/ ReturnStep
    \/ Tick

Spec == Init /\ [][Next]_vars

(***************************************************************************)
(* full-report alone, against upstream holiday lists long enough for the   *)
(* slice to cut them.                                                      *)
(***************************************************************************)
InvokeReport ==
    /\ pc = "idle"
    /\ FullReportCall("America/New_York", <<"d", "E">>)

SettleReport ==
    /\ pc # "idle"
    /\ SettleWith(MaxHolidays)

NextReport ==
    \/ InvokeReport
    \/ SettleReport
    \/ FilterStep
    \/ MapStep
    \/ ReturnStep
    \/ Tick

SpecReport == Init /\ [][NextReport]_vars

(***************************************************************************)
(* Properties.                                                             *)
(***************************************************************************)
PendingCalls == {i \in 1..Len(fetches) : fetches[i].resp.kind = "pending"}

Is2xx(resp) == resp.kind = "http" /\ resp.status \in 200..299

\* the upstream answered 2xx with a JSON object
Succeeded(resp) == Is2xx(resp) /\ resp.body.parse = "ok" /\ resp.body.data.t = "object"

\* a non-2xx response or a network failure
Failed(resp) == resp.kind = "network" \/ (resp.kind = "http" /\ resp.status \notin 200..299)

\* the call ends in a rejection: a failure, or a 2xx body that is not JSON
Rejecting(resp) == Failed(resp) \/ (Is2xx(resp) /\ resp.body.parse = "error")

\* the error a rejecting call is expected to throw
ExpectedError(resp) ==
    IF resp.kind = "network" THEN [name |-> "TypeError", message |-> <<"fetch failed">>]
    ELSE IF resp.status \notin 200..299
         THEN [name |-> "Error", message |-> <<"API error: ", resp.status>>]
    ELSE [name |-> "SyntaxError", message |-> <<"Unexpected token">>]

ExpectedSlot(tz, resp) ==
    IF Succeeded(resp)
    THEN LET d == resp.body.data.v
         IN  [timezone |-> tz, dateTime |-> d.dateTime, date |-> d.date, time |-> d.time,
              dayOfWeek |-> d.dayOfWeek, dstActive |-> d.dstActive]
    ELSE [timezone |-> tz, error |-> "Failed to fetch"]

\* C1: a finished multi-zone call over N timezones returns count = N and N slots;
\* slot i names input timezone i and is the success object of the response to the
\* call for timezone i, or exactly {timezone, error: 'Failed to fetch'} if that
\* call did not succeed, whatever the other calls did and in whatever order the
\* calls settled (each slot depends on its own timezone and response alone).
C1_MultiZoneSlots ==
    (handler = "multi-zone" /\ pc = "done") =>
        /\ result.kind = "output"
        /\ LET tzs == input.timezones
               out == result.output
           IN  /\ out.count = Len(tzs)
               /\ Len(out.times) = Len(tzs)
               /\ Len(fetches) = Len(tzs)
               /\ \A i \in 1..Len(tzs) :
                    /\ out.times[i].timezone = tzs[i]
                    /\ out.times[i] = ExpectedSlot(tzs[i], fetches[i].resp)

\* a multi-zone call whose calls settled out of input order, the first failing
\* and the second succeeding
C1_Witness ==
    /\ handler = "multi-zone" /\ pc = "done" /\ outOfOrder
    /\ input.timezones[1] # input.timezones[2]
    /\ ~Succeeded(fetches[1].resp) /\ Succeeded(fetches[2].resp)
    /\ result.kind = "output"
    /\ "error" \in DOMAIN result.output.times[1]
    /\ "dateTime" \in DOMAIN result.output.times[2]

\* C2: a multi-zone call never ends in a thrown error: the promise it awaits is
\* never rejected, and once finished it has returned an output object, whichever
\* of its calls failed (non-2xx, network error, unparsable body), all of them
\* included.
C2_MultiZoneNeverThrows ==
    handler = "multi-zone" =>
        /\ awaited.st # "rejected"
        /\ result.kind # "thrown"
        /\ pc = "done" => result.kind = "output"

\* a finished multi-zone call all of whose calls failed, one in each way
C2_Witness ==
    /\ handler = "multi-zone" /\ pc = "done" /\ result.kind = "output"
    /\ \A i \in 1..Len(fetches) : Rejecting(fetches[i].resp)
    /\ \E i \in 1..Len(fetches) : fetches[i].resp.kind = "network"
    /\ \E i \in 1..Len(fetches) : fetches[i].resp.kind = "http" /\ fetches[i].resp.status = 404
    /\ \E i \in 1..Len(fetches) : Is2xx(fetches[i].resp)

ReportOutput == handler = "full-report" /\ result.kind = "output"

\* the upstream holiday list of a full-report that returned
UpstreamHolidays == fetches[2].resp.body.data.v

\* the ISO date full-report read as `today`
TodayRead == toISOString(clockReads[1])[1]

\* C3: the upcomingHolidays full-report returns has at most 5 entries and none
\* whose date string is lexically less than the ISO date string read from the
\* clock when the holidays were filtered.
C3_UpcomingNotPast ==
    ReportOutput =>
        LET up == result.output.country.upcomingHolidays
            today == TodayRead
        IN  /\ Len(up) <= 5
            /\ \A j \in 1..Len(up) : ~StrLess(up[j].date, today)

\* five entries returned out of six upstream holidays, one of them past
C3_Witness ==
    /\ ReportOutput
    /\ Len(result.output.country.upcomingHolidays) = 5
    /\ Len(UpstreamHolidays) > 5
    /\ LET today == TodayRead
       IN  \E i \in 1..Len(UpstreamHolidays) : StrLess(UpstreamHolidays[i].date, today)

LowerLetters == {"d", "e"}

FoldChar(c) ==
    CASE c = "D" -> "d"
      [] c = "E" -> "e"
      [] OTHER   -> c

\* u is s with every letter in upper case
IsUpperCaseOf(u, s) ==
    /\ Len(u) = Len(s)
    /\ \A i \in 1..Len(s) : u[i] \notin LowerLetters /\ FoldChar(u[i]) = FoldChar(s[i])

\* C4: the country code in the upstream holidays request of holidays and of
\* full-report, and the code echoed in their output (countryCode, country.code),
\* are the input code with every letter in upper case, so inputs that differ only
\* in casing give the same request and the same echoed code.
C4_CountryCodeUpperCased ==
    /\ (handler = "holidays" /\ pc # "idle") =>
          /\ IsUpperCaseOf(fetches[1].url[3], input.countryCode)
          /\ result.kind = "output" =>
                /\ IsUpperCaseOf(result.output.countryCode, input.countryCode)
                /\ result.output.countryCode = fetches[1].url[3]
    /\ (handler = "full-report" /\ pc # "idle") =>
          /\ IsUpperCaseOf(fetches[2].url[3], input.countryCode)
          /\ result.kind = "output" =>
                /\ IsUpperCaseOf(result.output.country.code, input.countryCode)
                /\ result.output.country.code = fetches[2].url[3]

\* a holidays call with a mixed-case code that returned
C4_Witness ==
    /\ handler = "holidays" /\ result.kind = "output"
    /\ input.countryCode = <<"d", "E">>
    /\ result.output.countryCode = <<"D", "E">>
    /\ fetches[1].url[3] = <<"D", "E">>

\* the years of the clock instants up to now
YearsSoFar == {getFullYear(k * HalfDayMs) : k \in {j \in 0..MaxClock : j * HalfDayMs <= clock}}

\* C5: holidays falls back to the current calendar year exactly when `year` is
\* omitted: a supplied year keys the upstream request and is the output year; only
\* without one are they the calendar year at request time.
C5_YearFallbackOnlyWhenOmitted ==
    (handler = "holidays" /\ pc # "idle") =>
        IF "year" \in DOMAIN input
        THEN /\ fetches[1].url[2] = input.year
             /\ result.kind = "output" => result.output.year = input.year
        ELSE /\ fetches[1].url[2] \in YearsSoFar
             /\ result.kind = "output" => result.output.year = fetches[1].url[2]

\* the upstream answered 2xx with an object that has no conversionResult
NoConversionResult(resp) == Succeeded(resp) /\ "conversionResult" \notin DOMAIN resp.body.data.v

\* C6: when convert's upstream call answers 2xx with an object that has no
\* conversionResult, the handler does not throw: it returns an output whose
\* original block is defined and whose converted block holds the upstream
\* toTimeZone as timezone and nothing else (dateTime, date, time, dayOfWeek and
\* dstActive are absent).
C6_ConvertWithoutConversionResult ==
    (handler = "convert" /\ pc = "done" /\ NoConversionResult(fetches[1].resp)) =>
        /\ result.kind = "output"
        /\ LET d == fetches[1].resp.body.data.v
           IN  /\ result.output.original = [timezone |-> d.fromTimezone, dateTime |-> d.fromDateTime]
               /\ result.output.converted = [timezone |-> d.toTimeZone]
               /\ DOMAIN result.output.converted = {"timezone"}

C6_Witness ==
    /\ handler = "convert" /\ pc = "done" /\ NoConversionResult(fetches[1].resp)
    /\ result.kind = "output"
    /\ "timezone" \in DOMAIN result.output.converted

\* C7: in overview, current-time, convert, holidays and full-report, once one of
\* the handler's upstream calls has failed (non-2xx or network error) the
\* invocation has ended in a thrown error and no output: the error of one of its
\* rejecting calls, which for a non-2xx response is "API error: <status>".
C7_UpstreamFailurePropagates ==
    (handler \in Handlers \ {"multi-zone"} /\ \E i \in 1..Len(fetches) : Failed(fetches[i].resp)) =>
        /\ pc = "done"
        /\ result.kind = "thrown"
        /\ \E j \in 1..Len(fetches) :
              /\ Rejecting(fetches[j].resp)
              /\ result.error.name = ExpectedError(fetches[j].resp).name
              /\ result.error = ExpectedError(fetches[j].resp)

\* full-report whose time call succeeded and whose holidays call answered 404
C7_Witness ==
    /\ handler = "full-report" /\ pc = "done"
    /\ Succeeded(fetches[1].resp)
    /\ fetches[2].resp.kind = "http" /\ fetches[2].resp.status = 404
    /\ result = Thrown([name |-> "Error", message |-> <<"API error: ", 404>>])

BatchSize ==
    CASE handler = "multi-zone" -> Len(input.timezones)
      [] OTHER                  -> 2

\* C8 as stated: a batch handler never finishes, by returning or by failing,
\* while one of its own upstream calls is still in flight.
C8_FinishOnlyAfterAllComplete ==
    (handler \in BatchHandlers /\ pc = "done") => PendingCalls = {}

\* C8, amended: every call of a batch is issued before the handler first awaits;
\* the handler goes on past the await to return a result only after every call of
\* the batch has completed, and multi-zone finishes only then; overview and
\* full-report fail at the first call that fails, possibly with the other call
\* still in flight.
C8_JoinUnlessRejected ==
    handler \in BatchHandlers =>
        /\ pc # "idle" => Len(fetches) = BatchSize
        /\ pc \in {"filter", "map"} => PendingCalls = {}
        /\ result.kind = "output" => PendingCalls = {}
        /\ (handler = "multi-zone" /\ pc = "done") => PendingCalls = {}
        /\ (pc = "done" /\ PendingCalls # {}) =>
              /\ result.kind = "thrown"
              /\ \E j \in 1..Len(fetches) : Rejecting(fetches[j].resp)

\* overview returned its output, the second call having settled first
C8_Witness ==
    /\ handler = "overview" /\ result.kind = "output" /\ outOfOrder
    /\ PendingCalls = {}

\* the indices of the holidays of hs whose date is >= today
Qualifying(hs, today) == {i \in 1..Len(hs) : ~StrLess(hs[i].date, today)}

\* the position of index i among the indices q
Rank(q, i) == Cardinality({k \in q : k <= i})

\* C9: upcomingHolidays is the first min(5, k) of the k upstream holidays dated
\* today or later, in upstream order (not sorted), and country.totalHolidays is
\* the length of the whole upstream list.
C9_FirstFiveInUpstreamOrder ==
    ReportOutput =>
        LET up == result.output.country.upcomingHolidays
            hs == UpstreamHolidays
            q  == Qualifying(hs, TodayRead)
        IN  /\ Len(up) = Min(5, Cardinality(q))
            /\ \A i \in q :
                  Rank(q, i) <= 5 => /\ up[Rank(q, i)].date = hs[i].date
                                     /\ up[Rank(q, i)].name = hs[i].name
            /\ result.output.country.totalHolidays = Len(hs)

\* six qualifying holidays not ascending by date: the one left out is earlier than
\* one of the five returned
C9_Witness ==
    /\ ReportOutput
    /\ Len(result.output.country.upcomingHolidays) = 5
    /\ LET hs == UpstreamHolidays
           q  == Qualifying(hs, TodayRead)
       IN  /\ Cardinality(q) = 6
           /\ \E i \in q, j \in q :
                 /\ Rank(q, i) = 6 /\ Rank(q, j) <= 5
                 /\ StrLess(hs[i].date, hs[j].date)

UTCDay(t) == t \div MsPerDay

\* C10 as stated: every entry of upcomingHolidays has daysUntil >= 0.
C10_DaysUntilNonNegative ==
    ReportOutput =>
        \A j \in 1..Len(result.output.country.upcomingHolidays) :
            result.output.country.upcomingHolidays[j].daysUntil >= 0

\* C10, amended: an entry's daysUntil is at least minus the number of UTC
\* midnights between the clock read for `today` and the clock read for that entry;
\* it is >= 0 when both reads fall on the same UTC day.
C10_DaysUntilBoundedByMidnightsCrossed ==
    ReportOutput =>
        LET up == result.output.country.upcomingHolidays
        IN  \A j \in 1..Len(up) :
                /\ up[j].daysUntil >= -(UTCDay(clockReads[j + 1]) - UTCDay(clockReads[1]))
                /\ UTCDay(clockReads[j + 1]) = UTCDay(clockReads[1]) => up[j].daysUntil >= 0

\* a holiday dated today, its clock read on the same UTC day, half a day into it
C10_Witness ==
    /\ ReportOutput
    /\ \E j \in 1..Len(result.output.country.upcomingHolidays) :
          /\ result.output.country.upcomingHolidays[j].daysUntil = 0
          /\ result.output.country.upcomingHolidays[j].date = TodayRead
          /\ UTCDay(clockReads[j + 1]) = UTCDay(clockReads[1])
          /\ clockReads[j + 1] % MsPerDay # 0

====
